---- MODULE Spec2Model ----
(***************************************************************************)
(* Model of extensions/ext_neonmachines/main.py: a single-shot process     *)
(* that reads one JSON document from standard input, dispatches on its     *)
(* "tool" field to process_file_analyzer or process_code_generator, and    *)
(* writes one JSON record to standard output.                              *)
(*                                                                         *)
(* Python strings are sequences of one-character strings.  File contents   *)
(* are sequences of bytes (integers) that the text-mode read decodes to    *)
(* sequences of code points.                                               *)
(***************************************************************************)
EXTENDS Integers, Sequences, FiniteSets, TLC

VARIABLES stdin_doc, pc, input_data, result, exc, stdout_buf, stdout_open,
          emitted, exit_code, events, fs_trace, fs_state

vars == <<stdin_doc, pc, input_data, result, exc, stdout_buf, stdout_open,
          emitted, exit_code, events, fs_trace, fs_state>>

----------------------------------------------------------------------------
(* Bounds *)

\* longest file content, in bytes
MaxLen == 3
\* most words concatenated into a specification string
MaxWords == 2

----------------------------------------------------------------------------
(* JSON values as Python sees them after json.load *)

JStr(s) == [t |-> "str", s |-> s, n |-> 0]
JInt(n) == [t |-> "int", s |-> <<>>, n |-> n]
JBool(b) == [t |-> "bool", s |-> <<>>, n |-> IF b THEN 1 ELSE 0]
\* a JSON array of n nulls
JList(n) == [t |-> "list", s |-> <<>>, n |-> n]
JNull == [t |-> "NoneType", s |-> <<>>, n |-> 0]
\* marks a key the object does not have
Absent == [t |-> "absent", s |-> <<>>, n |-> 0]

\* dict.get(key, default)
Get(data, key, default) == IF data[key] = Absent THEN default ELSE data[key]

\* truth value of a Python object, as tested by "not x"
\* faulty variant of Truthy: only None counts as empty
TruthyNotNone(v) == v.t # "NoneType"
Truthy(v) ==
    CASE v.t = "str" -> v.s # <<>>
      [] v.t \in {"int", "bool", "list"} -> v.n # 0
      [] OTHER -> FALSE

Digits == <<"0", "1", "2", "3", "4", "5", "6", "7", "8", "9">>

RECURSIVE int_str(_)
\* str(n) of a non-negative integer
int_str(n) ==
    IF n < 10 THEN <<Digits[n + 1]>>
    ELSE int_str(n \div 10) \o <<Digits[(n % 10) + 1]>>

RECURSIVE list_str(_)
list_str(n) ==
    IF n = 0 THEN <<>>
    ELSE IF n = 1 THEN <<"N", "o", "n", "e">>
    ELSE <<"N", "o", "n", "e", ",", " ">> \o list_str(n - 1)

\* str(v), as an f-string formats the value
PyStr(v) ==
    CASE v.t = "str" -> v.s
      [] v.t = "int" -> int_str(v.n)
      [] v.t = "bool" -> IF v.n = 1 THEN <<"T", "r", "u", "e">> ELSE <<"F", "a", "l", "s", "e">>
      [] v.t = "list" -> <<"[">> \o list_str(v.n) \o <<"]">>
      [] OTHER -> <<"N", "o", "n", "e">>

UpperLetters == <<"A", "B", "C", "D", "E", "F", "G", "H", "I", "J", "K", "L", "M", "N", "O", "P", "Q", "R", "S", "T", "U", "V", "W", "X", "Y", "Z">>
LowerLetters == <<"a", "b", "c", "d", "e", "f", "g", "h", "i", "j", "k", "l", "m", "n", "o", "p", "q", "r", "s", "t", "u", "v", "w", "x", "y", "z">>

LowerChar(c) ==
    IF \E i \in DOMAIN UpperLetters : UpperLetters[i] = c
    THEN LowerLetters[CHOOSE i \in DOMAIN UpperLetters : UpperLetters[i] = c]
    ELSE c

UpperChar(c) ==
    IF \E i \in DOMAIN LowerLetters : LowerLetters[i] = c
    THEN UpperLetters[CHOOSE i \in DOMAIN LowerLetters : LowerLetters[i] = c]
    ELSE c

\* str.lower()
lower(s) == IF s = <<>> THEN <<>> ELSE [i \in 1..Len(s) |-> LowerChar(s[i])]

\* faulty variant of capitalize: the rest is left as it is
capitalize_first_only(s) ==
    IF s = <<>> THEN <<>>
    ELSE [i \in 1..Len(s) |-> IF i = 1 THEN UpperChar(s[i]) ELSE s[i]]
\* str.capitalize(): first character upper-cased, the rest lower-cased
capitalize(s) ==
    IF s = <<>> THEN <<>>
    ELSE [i \in 1..Len(s) |-> IF i = 1 THEN UpperChar(s[i]) ELSE LowerChar(s[i])]

\* sub in s
Contains(sub, s) ==
    \E i \in 0..(Len(s) - Len(sub)) : SubSeq(s, i + 1, i + Len(sub)) = sub

\* message of the AttributeError raised by v.attr on an object without it
AttributeError(v, attr) ==
    <<"'">> \o (IF v.t = "absent" THEN <<"N", "o", "n", "e", "T", "y", "p", "e">> ELSE
            CASE v.t = "str" -> <<"s", "t", "r">> [] v.t = "int" -> <<"i", "n", "t">>
              [] v.t = "bool" -> <<"b", "o", "o", "l">> [] v.t = "list" -> <<"l", "i", "s", "t">>
              [] OTHER -> <<"N", "o", "n", "e", "T", "y", "p", "e">>)
        \o <<"'", " ", "o", "b", "j", "e", "c", "t", " ", "h", "a", "s", " ", "n", "o", " ", "a", "t", "t", "r", "i", "b", "u", "t", "e", " ", "'">> \o attr \o <<"'">>

----------------------------------------------------------------------------
(* Response records *)

NoRecord == [unset |-> TRUE]
NoExc == [raised |-> FALSE, msg |-> <<>>]
Raise(msg) == [raised |-> TRUE, msg |-> msg]
\* what a handler call does: return a record or raise
Return(rec) == [ret |-> rec, exc |-> NoExc]
Throw(msg) == [ret |-> NoRecord, exc |-> Raise(msg)]

----------------------------------------------------------------------------
(* process_file_analyzer *)

Error(msg) == [error |-> msg]

FilePathRequired == Error(<<"F", "i", "l", "e", " ", "p", "a", "t", "h", " ", "i", "s", " ", "r", "e", "q", "u", "i", "r", "e", "d">>)

\* faulty variant of FileNotFound: an empty result beside the error
FileNotFoundWithResult(file_path) ==
    [error |-> <<"F", "i", "l", "e", " ", "n", "o", "t", " ", "f", "o", "u", "n", "d", ":", " ">> \o PyStr(file_path), result |-> <<>>]
FileNotFound(file_path) == Error(<<"F", "i", "l", "e", " ", "n", "o", "t", " ", "f", "o", "u", "n", "d", ":", " ">> \o PyStr(file_path))

\* faulty variant of FailedToAnalyze: the bare message
FailedToAnalyzeBare(msg) == Error(msg)
\* the record built by the handler's own except clause
FailedToAnalyze(msg) == Error(<<"F", "a", "i", "l", "e", "d", " ", "t", "o", " ", "a", "n", "a", "l", "y", "z", "e", " ", "f", "i", "l", "e", ":", " ">> \o msg)

\* message of the TypeError os.path.exists raises for a path of a wrong type
PathTypeError(v) ==
    <<"s", "t", "a", "t", ":", " ", "p", "a", "t", "h", " ", "s", "h", "o", "u", "l", "d", " ", "b", "e", " ", "s", "t", "r", "i", "n", "g", ",", " ", "b", "y", "t", "e", "s", ",", " ", "o", "s", ".", "P", "a", "t", "h", "L", "i", "k", "e", " ", "o", "r", " ", "i", "n", "t", "e", "g", "e", "r", ",", " ", "n", "o", "t", " ">> \o
    (IF v.t = "list" THEN <<"l", "i", "s", "t">> ELSE <<"N", "o", "n", "e", "T", "y", "p", "e">>)

\* The bytes a file of the model may hold: "a", LF, CR and the two bytes of
\* U+00E9; either of the last two alone is not valid UTF-8.
LF == 10
CR == 13
ByteAlphabet == {97, LF, CR, 195, 169}
ByteSeqs == UNION {[1..n -> ByteAlphabet] : n \in 0..MaxLen}

HexDigits == <<"0", "1", "2", "3", "4", "5", "6", "7", "8", "9", "a", "b", "c", "d", "e", "f">>

\* message of the UnicodeDecodeError for byte b at offset pos
DecodeErrorMsg(b, pos, reason) ==
    <<"'", "u", "t", "f", "-", "8", "'", " ", "c", "o", "d", "e", "c", " ", "c", "a", "n", "'", "t", " ", "d", "e", "c", "o", "d", "e", " ", "b", "y", "t", "e", " ", "0", "x">> \o
    <<HexDigits[(b \div 16) + 1], HexDigits[(b % 16) + 1]>> \o
    <<" ", "i", "n", " ", "p", "o", "s", "i", "t", "i", "o", "n", " ">> \o int_str(pos) \o <<":", " ">> \o reason

RECURSIVE utf8_decode_from(_, _)
\* decoding of b from index i on, for lead bytes below 224 (one- and
\* two-byte forms); ok is FALSE where the codec raises UnicodeDecodeError
utf8_decode_from(b, i) ==
    IF i > Len(b) THEN [ok |-> TRUE, chars |-> <<>>, msg |-> <<>>]
    ELSE IF b[i] < 128
    THEN LET r == utf8_decode_from(b, i + 1)
         IN  [ok |-> r.ok, chars |-> <<b[i]>> \o r.chars, msg |-> r.msg]
    ELSE IF b[i] \in 194..223
    THEN IF i = Len(b)
         THEN [ok |-> FALSE, chars |-> <<>>,
               msg |-> DecodeErrorMsg(b[i], i - 1, <<"u", "n", "e", "x", "p", "e", "c", "t", "e", "d", " ", "e", "n", "d", " ", "o", "f", " ", "d", "a", "t", "a">>)]
         ELSE IF b[i + 1] \notin 128..191
         THEN [ok |-> FALSE, chars |-> <<>>,
               msg |-> DecodeErrorMsg(b[i], i - 1, <<"i", "n", "v", "a", "l", "i", "d", " ", "c", "o", "n", "t", "i", "n", "u", "a", "t", "i", "o", "n", " ", "b", "y", "t", "e">>)]
         ELSE LET r == utf8_decode_from(b, i + 2)
              IN  [ok |-> r.ok,
                   chars |-> <<(b[i] - 192) * 64 + (b[i + 1] - 128)>> \o r.chars,
                   msg |-> r.msg]
    ELSE [ok |-> FALSE, chars |-> <<>>,
          msg |-> DecodeErrorMsg(b[i], i - 1, <<"i", "n", "v", "a", "l", "i", "d", " ", "s", "t", "a", "r", "t", " ", "b", "y", "t", "e">>)]

\* bytes.decode("utf-8")
utf8_decode(b) ==
    LET r == utf8_decode_from(b, 1)
    IN  [ok |-> r.ok, chars |-> IF r.ok THEN r.chars ELSE <<>>, msg |-> r.msg]

RECURSIVE translate_newlines(_)
\* universal newlines of a text-mode read (newline=None): CR LF and a lone
\* CR both become LF
translate_newlines(c) ==
    IF c = <<>> THEN <<>>
    ELSE IF c[1] = CR
    THEN IF Len(c) >= 2 /\ c[2] = LF
         THEN <<LF>> \o translate_newlines(SubSeq(c, 3, Len(c)))
         ELSE <<LF>> \o translate_newlines(Tail(c))
    ELSE <<c[1]>> \o translate_newlines(Tail(c))

\* f.read() of open(file_path, 'r', encoding='utf-8') on bytes that decode
read_text(b) == translate_newlines(utf8_decode(b).chars)

RECURSIVE split(_, _)
\* str.split(sep) for a one-character separator
split(s, sep) ==
    IF \A i \in DOMAIN s : s[i] # sep THEN <<s>>
    ELSE LET i == CHOOSE j \in DOMAIN s :
                      s[j] = sep /\ \A k \in 1..(j - 1) : s[k] # sep
         IN  <<SubSeq(s, 1, i - 1)>> \o split(SubSeq(s, i + 1, Len(s)), sep)

RECURSIVE splitlines(_)
\* str.splitlines() restricted to LF: no empty last piece
splitlines(s) ==
    IF s = <<>> THEN <<>>
    ELSE IF \A i \in DOMAIN s : s[i] # LF THEN <<s>>
    ELSE LET i == CHOOSE j \in DOMAIN s :
                      s[j] = LF /\ \A k \in 1..(j - 1) : s[k] # LF
         IN  <<SubSeq(s, 1, i - 1)>> \o splitlines(SubSeq(s, i + 1, Len(s)))

\* faulty variant of content_lines: str.splitlines() in place of split
content_lines_splitlines(content) == splitlines(content)
\* lines = content.split('\n')
content_lines(content) == split(content, LF)

SecurityMsg(file_path, nchars) ==
    <<"S", "e", "c", "u", "r", "i", "t", "y", " ", "a", "n", "a", "l", "y", "s", "i", "s", " ", "o", "f", " ">> \o PyStr(file_path) \o
    <<":", " ", "N", "o", " ", "c", "r", "i", "t", "i", "c", "a", "l", " ", "s", "e", "c", "u", "r", "i", "t", "y", " ", "i", "s", "s", "u", "e", "s", " ", "d", "e", "t", "e", "c", "t", "e", "d", ".", " ", "F", "i", "l", "e", " ", "c", "o", "n", "t", "a", "i", "n", "s", " ">> \o
    int_str(nchars) \o <<" ", "c", "h", "a", "r", "a", "c", "t", "e", "r", "s", ".">>

PerformanceMsg(file_path, nchars) ==
    <<"P", "e", "r", "f", "o", "r", "m", "a", "n", "c", "e", " ", "a", "n", "a", "l", "y", "s", "i", "s", " ", "o", "f", " ">> \o PyStr(file_path) \o <<":", " ", "F", "i", "l", "e", " ", "s", "i", "z", "e", " ", "i", "s", " ">> \o
    int_str(nchars) \o <<" ", "c", "h", "a", "r", "a", "c", "t", "e", "r", "s", ".", " ", "N", "o", " ", "p", "e", "r", "f", "o", "r", "m", "a", "n", "c", "e", " ", "b", "o", "t", "t", "l", "e", "n", "e", "c", "k", "s", " ", "d", "e", "t", "e", "c", "t", "e", "d", ".">>

SummaryMsg(file_path, nlines, nchars) ==
    <<"S", "u", "m", "m", "a", "r", "y", " ", "o", "f", " ">> \o PyStr(file_path) \o <<":", " ", "F", "i", "l", "e", " ", "c", "o", "n", "t", "a", "i", "n", "s", " ">> \o
    int_str(nlines) \o <<" ", "l", "i", "n", "e", "s", " ", "a", "n", "d", " ">> \o int_str(nchars) \o <<" ", "c", "h", "a", "r", "a", "c", "t", "e", "r", "s", ".">>

\* the analysis branches on the text read
Analyze(file_path, analysis_type, content) ==
    IF analysis_type = JStr(<<"s", "e", "c", "u", "r", "i", "t", "y">>)
    THEN SecurityMsg(file_path, Len(content))
    ELSE IF analysis_type = JStr(<<"p", "e", "r", "f", "o", "r", "m", "a", "n", "c", "e">>)
    THEN PerformanceMsg(file_path, Len(content))
    ELSE SummaryMsg(file_path, Len(content_lines(content)), Len(content))

\* State of the file-system entry (or descriptor) a path names when the
\* handler reaches it.  fail = "open": open() raises OSError; fail = "read":
\* the read raises OSError; otherwise the read returns bytes.
Untouched == [exists |-> FALSE, fail |-> "untouched", msg |-> <<>>, bytes |-> <<>>]
Missing == [exists |-> FALSE, fail |-> "none", msg |-> <<>>, bytes |-> <<>>]
FileStates ==
    {Missing}
    \cup {[exists |-> TRUE, fail |-> "open", msg |-> m, bytes |-> <<>>] :
             m \in {<<"[", "E", "r", "r", "n", "o", " ", "1", "3", "]", " ", "P", "e", "r", "m", "i", "s", "s", "i", "o", "n", " ", "d", "e", "n", "i", "e", "d">>, <<"[", "E", "r", "r", "n", "o", " ", "2", "1", "]", " ", "I", "s", " ", "a", " ", "d", "i", "r", "e", "c", "t", "o", "r", "y">>}}
    \cup {[exists |-> TRUE, fail |-> "read", msg |-> <<"[", "E", "r", "r", "n", "o", " ", "9", "]", " ", "B", "a", "d", " ", "f", "i", "l", "e", " ", "d", "e", "s", "c", "r", "i", "p", "t", "o", "r">>, bytes |-> <<>>]}
    \cup {[exists |-> TRUE, fail |-> "none", msg |-> <<>>, bytes |-> b] : b \in ByteSeqs}

\* an integer (or bool) path names a file descriptor
IsFd(v) == v.t \in {"int", "bool"}
StdoutFd == 1

\* what process_file_analyzer returns, the file-system calls it makes, and
\* the descriptor the with-block closes (0: none)
FileAnalyzer(data, st) ==
    LET file_path == Get(data, "file_path", JStr(<<>>))
        analysis_type == Get(data, "analysis_type", JStr(<<"s", "u", "m", "m", "a", "r", "y">>))
        all == <<"exists", "open", "read", "close">>
        own == IF IsFd(file_path) THEN file_path.n ELSE 0
    IN  IF ~Truthy(file_path)
        THEN [ret |-> FilePathRequired, trace |-> <<>>, closed |-> 0]
        ELSE IF file_path.t \notin {"str", "int", "bool"}
        THEN [ret |-> FailedToAnalyze(PathTypeError(file_path)),
              trace |-> <<"exists">>, closed |-> 0]
        ELSE IF ~st.exists
        THEN [ret |-> FileNotFound(file_path), trace |-> <<"exists">>, closed |-> 0]
        ELSE IF st.fail = "open"
        THEN [ret |-> FailedToAnalyze(st.msg), trace |-> <<"exists", "open">>,
              closed |-> 0]
        ELSE IF st.fail = "read"
        THEN [ret |-> FailedToAnalyze(st.msg), trace |-> all, closed |-> own]
        ELSE IF ~utf8_decode(st.bytes).ok
        THEN [ret |-> FailedToAnalyze(utf8_decode(st.bytes).msg), trace |-> all, closed |-> own]
        ELSE [ret |-> [result |-> Analyze(file_path, analysis_type, read_text(st.bytes))],
              trace |-> all, closed |-> own]

\* the states the entry named by file_path can be in: the handler does not
\* look when it rejects the path first, and descriptor 1 is the open
\* standard output
FileStatesFor(data) ==
    LET file_path == Get(data, "file_path", JStr(<<>>))
    IN  IF ~Truthy(file_path) \/ file_path.t \notin {"str", "int", "bool"}
        THEN {Untouched}
        ELSE IF IsFd(file_path) /\ file_path.n = StdoutFd
        THEN {st \in FileStates : st.exists /\ st.fail # "open"}
        ELSE FileStates

----------------------------------------------------------------------------
(* process_code_generator *)

WebCode == <<"#", " ", "W", "e", "b", " ", "A", "P", "I", " ", "I", "m", "p", "l", "e", "m", "e", "n", "t", "a", "t", "i", "o", "n", "\n", "f", "r", "o", "m", " ", "f", "l", "a", "s", "k", " ", "i", "m", "p", "o", "r", "t", " ", "F", "l", "a", "s", "k", ",", " ", "j", "s", "o", "n", "i", "f", "y", ",", " ", "r", "e", "q", "u", "e", "s", "t", "\n", "\n", "a", "p", "p", " ", "=", " ", "F", "l", "a", "s", "k", "(", "_", "_", "n", "a", "m", "e", "_", "_", ")", "\n", "\n", "@", "a", "p", "p", ".", "r", "o", "u", "t", "e", "(", "'", "/", "a", "p", "i", "/", "d", "a", "t", "a", "'", ",", " ", "m", "e", "t", "h", "o", "d", "s", "=", "[", "'", "G", "E", "T", "'", "]", ")", "\n", "d", "e", "f", " ", "g", "e", "t", "_", "d", "a", "t", "a", "(", ")", ":", "\n", " ", " ", " ", " ", "\"", "\"", "\"", "G", "e", "t", " ", "s", "a", "m", "p", "l", "e", " ", "d", "a", "t", "a", "\"", "\"", "\"", "\n", " ", " ", " ", " ", "r", "e", "t", "u", "r", "n", " ", "j", "s", "o", "n", "i", "f", "y", "(", "{", "\"", "m", "e", "s", "s", "a", "g", "e", "\"", ":", " ", "\"", "H", "e", "l", "l", "o", " ", "f", "r", "o", "m", " ", "F", "l", "a", "s", "k", " ", "A", "P", "I", "\"", "}", ")", "\n", "\n", "@", "a", "p", "p", ".", "r", "o", "u", "t", "e", "(", "'", "/", "a", "p", "i", "/", "d", "a", "t", "a", "'", ",", " ", "m", "e", "t", "h", "o", "d", "s", "=", "[", "'", "P", "O", "S", "T", "'", "]", ")", "\n", "d", "e", "f", " ", "p", "o", "s", "t", "_", "d", "a", "t", "a", "(", ")", ":", "\n", " ", " ", " ", " ", "\"", "\"", "\"", "P", "o", "s", "t", " ", "d", "a", "t", "a", " ", "t", "o", " ", "A", "P", "I", "\"", "\"", "\"", "\n", " ", " ", " ", " ", "d", "a", "t", "a", " ", "=", " ", "r", "e", "q", "u", "e", "s", "t", ".", "g", "e", "t", "_", "j", "s", "o", "n", "(", ")", "\n", " ", " ", " ", " ", "r", "e", "t", "u", "r", "n", " ", "j", "s", "o", "n", "i", "f", "y", "(", "{", "\"", "r", "e", "c", "e", "i", "v", "e", "d", "\"", ":", " ", "d", "a", "t", "a", ",", " ", "\"", "s", "t", "a", "t", "u", "s", "\"", ":", " ", "\"", "s", "u", "c", "c", "e", "s", "s", "\"", "}", ")", "\n", "\n", "i", "f", " ", "_", "_", "n", "a", "m", "e", "_", "_", " ", "=", "=", " ", "'", "_", "_", "m", "a", "i", "n", "_", "_", "'", ":", "\n", " ", " ", " ", " ", "a", "p", "p", ".", "r", "u", "n", "(", "d", "e", "b", "u", "g", "=", "T", "r", "u", "e", ")">>
WebExplanation == <<"G", "e", "n", "e", "r", "a", "t", "e", "d", " ", "a", " ", "F", "l", "a", "s", "k", " ", "w", "e", "b", " ", "A", "P", "I", " ", "w", "i", "t", "h", " ", "G", "E", "T", " ", "a", "n", "d", " ", "P", "O", "S", "T", " ", "e", "n", "d", "p", "o", "i", "n", "t", "s">>
DataCode == <<"#", " ", "D", "a", "t", "a", " ", "A", "n", "a", "l", "y", "s", "i", "s", " ", "S", "c", "r", "i", "p", "t", "\n", "i", "m", "p", "o", "r", "t", " ", "p", "a", "n", "d", "a", "s", " ", "a", "s", " ", "p", "d", "\n", "i", "m", "p", "o", "r", "t", " ", "m", "a", "t", "p", "l", "o", "t", "l", "i", "b", ".", "p", "y", "p", "l", "o", "t", " ", "a", "s", " ", "p", "l", "t", "\n", "\n", "d", "e", "f", " ", "a", "n", "a", "l", "y", "z", "e", "_", "d", "a", "t", "a", "(", "f", "i", "l", "e", "_", "p", "a", "t", "h", ")", ":", "\n", " ", " ", " ", " ", "\"", "\"", "\"", "A", "n", "a", "l", "y", "z", "e", " ", "d", "a", "t", "a", " ", "f", "r", "o", "m", " ", "a", " ", "C", "S", "V", " ", "f", "i", "l", "e", "\"", "\"", "\"", "\n", " ", " ", " ", " ", "t", "r", "y", ":", "\n", " ", " ", " ", " ", " ", " ", " ", " ", "d", "f", " ", "=", " ", "p", "d", ".", "r", "e", "a", "d", "_", "c", "s", "v", "(", "f", "i", "l", "e", "_", "p", "a", "t", "h", ")", "\n", " ", " ", " ", " ", " ", " ", " ", " ", "p", "r", "i", "n", "t", "(", "f", "\"", "D", "a", "t", "a", " ", "s", "h", "a", "p", "e", ":", " ", "{", "d", "f", ".", "s", "h", "a", "p", "e", "}", "\"", ")", "\n", " ", " ", " ", " ", " ", " ", " ", " ", "p", "r", "i", "n", "t", "(", "f", "\"", "C", "o", "l", "u", "m", "n", "s", ":", " ", "{", "l", "i", "s", "t", "(", "d", "f", ".", "c", "o", "l", "u", "m", "n", "s", ")", "}", "\"", ")", "\n", " ", " ", " ", " ", " ", " ", " ", " ", "p", "r", "i", "n", "t", "(", "\"", "\\", "n", "F", "i", "r", "s", "t", " ", "5", " ", "r", "o", "w", "s", ":", "\"", ")", "\n", " ", " ", " ", " ", " ", " ", " ", " ", "p", "r", "i", "n", "t", "(", "d", "f", ".", "h", "e", "a", "d", "(", ")", ")", "\n", " ", " ", " ", " ", " ", " ", " ", " ", "r", "e", "t", "u", "r", "n", " ", "d", "f", "\n", " ", " ", " ", " ", "e", "x", "c", "e", "p", "t", " ", "E", "x", "c", "e", "p", "t", "i", "o", "n", " ", "a", "s", " ", "e", ":", "\n", " ", " ", " ", " ", " ", " ", " ", " ", "p", "r", "i", "n", "t", "(", "f", "\"", "E", "r", "r", "o", "r", " ", "r", "e", "a", "d", "i", "n", "g", " ", "d", "a", "t", "a", ":", " ", "{", "e", "}", "\"", ")", "\n", " ", " ", " ", " ", " ", " ", " ", " ", "r", "e", "t", "u", "r", "n", " ", "N", "o", "n", "e", "\n", "\n", "d", "e", "f", " ", "v", "i", "s", "u", "a", "l", "i", "z", "e", "_", "d", "a", "t", "a", "(", "d", "f", ",", " ", "c", "o", "l", "u", "m", "n", "_", "n", "a", "m", "e", ")", ":", "\n", " ", " ", " ", " ", "\"", "\"", "\"", "C", "r", "e", "a", "t", "e", " ", "a", " ", "s", "i", "m", "p", "l", "e", " ", "v", "i", "s", "u", "a", "l", "i", "z", "a", "t", "i", "o", "n", "\"", "\"", "\"", "\n", " ", " ", " ", " ", "i", "f", " ", "c", "o", "l", "u", "m", "n", "_", "n", "a", "m", "e", " ", "i", "n", " ", "d", "f", ".", "c", "o", "l", "u", "m", "n", "s", ":", "\n", " ", " ", " ", " ", " ", " ", " ", " ", "p", "l", "t", ".", "f", "i", "g", "u", "r", "e", "(", "f", "i", "g", "s", "i", "z", "e", "=", "(", "1", "0", ",", " ", "6", ")", ")", "\n", " ", " ", " ", " ", " ", " ", " ", " ", "d", "f", "[", "c", "o", "l", "u", "m", "n", "_", "n", "a", "m", "e", "]", ".", "h", "i", "s", "t", "(", ")", "\n", " ", " ", " ", " ", " ", " ", " ", " ", "p", "l", "t", ".", "t", "i", "t", "l", "e", "(", "f", "'", "D", "i", "s", "t", "r", "i", "b", "u", "t", "i", "o", "n", " ", "o", "f", " ", "{", "c", "o", "l", "u", "m", "n", "_", "n", "a", "m", "e", "}", "'", ")", "\n", " ", " ", " ", " ", " ", " ", " ", " ", "p", "l", "t", ".", "x", "l", "a", "b", "e", "l", "(", "c", "o", "l", "u", "m", "n", "_", "n", "a", "m", "e", ")", "\n", " ", " ", " ", " ", " ", " ", " ", " ", "p", "l", "t", ".", "y", "l", "a", "b", "e", "l", "(", "'", "F", "r", "e", "q", "u", "e", "n", "c", "y", "'", ")", "\n", " ", " ", " ", " ", " ", " ", " ", " ", "p", "l", "t", ".", "s", "h", "o", "w", "(", ")", "\n", " ", " ", " ", " ", "e", "l", "s", "e", ":", "\n", " ", " ", " ", " ", " ", " ", " ", " ", "p", "r", "i", "n", "t", "(", "f", "\"", "C", "o", "l", "u", "m", "n", " ", "{", "c", "o", "l", "u", "m", "n", "_", "n", "a", "m", "e", "}", " ", "n", "o", "t", " ", "f", "o", "u", "n", "d", "\"", ")", "\n", "\n", "#", " ", "E", "x", "a", "m", "p", "l", "e", " ", "u", "s", "a", "g", "e", "\n", "#", " ", "d", "f", " ", "=", " ", "a", "n", "a", "l", "y", "z", "e", "_", "d", "a", "t", "a", "(", "'", "d", "a", "t", "a", ".", "c", "s", "v", "'", ")", "\n", "#", " ", "v", "i", "s", "u", "a", "l", "i", "z", "e", "_", "d", "a", "t", "a", "(", "d", "f", ",", " ", "'", "v", "a", "l", "u", "e", "'", ")">>
DataExplanation == <<"G", "e", "n", "e", "r", "a", "t", "e", "d", " ", "a", " ", "d", "a", "t", "a", " ", "a", "n", "a", "l", "y", "s", "i", "s", " ", "s", "c", "r", "i", "p", "t", " ", "u", "s", "i", "n", "g", " ", "p", "a", "n", "d", "a", "s", " ", "a", "n", "d", " ", "m", "a", "t", "p", "l", "o", "t", "l", "i", "b">>
GenericCode == <<"#", " ", "G", "e", "n", "e", "r", "i", "c", " ", "P", "y", "t", "h", "o", "n", " ", "S", "c", "r", "i", "p", "t", "\n", "d", "e", "f", " ", "m", "a", "i", "n", "(", ")", ":", "\n", " ", " ", " ", " ", "\"", "\"", "\"", "M", "a", "i", "n", " ", "f", "u", "n", "c", "t", "i", "o", "n", "\"", "\"", "\"", "\n", " ", " ", " ", " ", "p", "r", "i", "n", "t", "(", "\"", "H", "e", "l", "l", "o", " ", "f", "r", "o", "m", " ", "N", "e", "o", "n", "m", "a", "c", "h", "i", "n", "e", "s", "!", "\"", ")", "\n", " ", " ", " ", " ", "#", " ", "Y", "o", "u", "r", " ", "c", "o", "d", "e", " ", "h", "e", "r", "e", "\n", " ", " ", " ", " ", "p", "a", "s", "s", "\n", "\n", "i", "f", " ", "_", "_", "n", "a", "m", "e", "_", "_", " ", "=", "=", " ", "\"", "_", "_", "m", "a", "i", "n", "_", "_", "\"", ":", "\n", " ", " ", " ", " ", "m", "a", "i", "n", "(", ")">>
GenericExplanation == <<"G", "e", "n", "e", "r", "a", "t", "e", "d", " ", "a", " ", "b", "a", "s", "i", "c", " ", "P", "y", "t", "h", "o", "n", " ", "s", "c", "r", "i", "p", "t", " ", "t", "e", "m", "p", "l", "a", "t", "e">>

WebTemplate == [code |-> WebCode, explanation |-> WebExplanation]
DataTemplate == [code |-> DataCode, explanation |-> DataExplanation]
GenericTemplate == [code |-> GenericCode, explanation |-> GenericExplanation]

\* faulty variant of PythonTemplate: the two keyword tests swapped
PythonTemplateDataFirst(specification) ==
    IF Contains(<<"d", "a", "t", "a">>, lower(specification)) \/ Contains(<<"a", "n", "a", "l", "y", "s", "i", "s">>, lower(specification))
    THEN DataTemplate
    ELSE IF Contains(<<"w", "e", "b">>, lower(specification)) \/ Contains(<<"a", "p", "i">>, lower(specification))
    THEN WebTemplate
    ELSE GenericTemplate
\* the template chosen for a Python request
PythonTemplate(specification) ==
    IF Contains(<<"w", "e", "b">>, lower(specification)) \/ Contains(<<"a", "p", "i">>, lower(specification))
    THEN WebTemplate
    ELSE IF Contains(<<"d", "a", "t", "a">>, lower(specification)) \/ Contains(<<"a", "n", "a", "l", "y", "s", "i", "s">>, lower(specification))
    THEN DataTemplate
    ELSE GenericTemplate

\* the placeholder for any other language
Placeholder(language, specification) ==
    [code |-> <<"#", " ">> \o capitalize(language) \o <<" ", "c", "o", "d", "e", " ", "p", "l", "a", "c", "e", "h", "o", "l", "d", "e", "r", "\\", "n", "#", " ", "S", "p", "e", "c", "i", "f", "i", "c", "a", "t", "i", "o", "n", ":", " ">> \o PyStr(specification),
     explanation |-> <<"G", "e", "n", "e", "r", "a", "t", "e", "d", " ", "p", "l", "a", "c", "e", "h", "o", "l", "d", "e", "r", " ", "c", "o", "d", "e", " ", "f", "o", "r", " ">> \o language]

SpecificationRequired == Error(<<"S", "p", "e", "c", "i", "f", "i", "c", "a", "t", "i", "o", "n", " ", "i", "s", " ", "r", "e", "q", "u", "i", "r", "e", "d">>)

CodeGenerator(data) ==
    LET specification == Get(data, "specification", JStr(<<>>))
        language == Get(data, "language", JStr(<<"p", "y", "t", "h", "o", "n">>))
        framework == Get(data, "framework", JStr(<<>>))
    IN  IF ~Truthy(specification) THEN Return(SpecificationRequired)
        ELSE IF language.t # "str" THEN Throw(AttributeError(language, <<"l", "o", "w", "e", "r">>))
        ELSE IF lower(language.s) = <<"p", "y", "t", "h", "o", "n">>
        THEN IF specification.t # "str"
             THEN Throw(AttributeError(specification, <<"l", "o", "w", "e", "r">>))
             ELSE Return(PythonTemplate(specification.s))
        ELSE Return(Placeholder(language.s, specification))

----------------------------------------------------------------------------
(* Standard input *)

Keys == {"tool", "file_path", "analysis_type", "specification", "language", "framework"}
EmptyObject == [k \in Keys |-> Absent]

Object(tool, file_path, analysis_type, specification, language, framework) ==
    [tool |-> tool, file_path |-> file_path, analysis_type |-> analysis_type,
     specification |-> specification, language |-> language, framework |-> framework]

\* a document on standard input: text json.load rejects (val: the message of
\* the JSONDecodeError), a JSON value that is no object, or an object
Malformed(msg) == [kind |-> "malformed", val |-> JStr(msg), obj |-> EmptyObject]
Scalar(v) == [kind |-> "scalar", val |-> v, obj |-> EmptyObject]
ObjectDoc(o) == [kind |-> "object", val |-> JNull, obj |-> o]
NoDoc == [kind |-> "none", val |-> JNull, obj |-> EmptyObject]

Words == {<<"w", "e", "b">>, <<"A", "P", "I">>, <<"D", "a", "t", "a">>, <<"a", "n", "a", "l", "y", "s", "i", "s">>, <<"w", "e">>, <<"b">>, <<"r", "e", "p", "o", "r", "t">>}

RECURSIVE WordStrings(_)
WordStrings(n) ==
    IF n = 0 THEN {<<>>}
    ELSE LET prev == WordStrings(n - 1)
         IN  prev \cup {p \o w : p \in prev, w \in Words}

PathValues ==
    {Absent, JNull, JStr(<<>>), JInt(0), JBool(FALSE), JList(0),
     JStr(<<"p">>), JStr(<<"/", "t", "m", "p", "/", "f", ".", "t", "x", "t">>), JInt(1), JBool(TRUE), JInt(2), JInt(5), JList(1)}

AnalysisValues ==
    {Absent, JNull, JInt(5), JStr(<<"s", "u", "m", "m", "a", "r", "y">>), JStr(<<"s", "e", "c", "u", "r", "i", "t", "y">>),
     JStr(<<"p", "e", "r", "f", "o", "r", "m", "a", "n", "c", "e">>), JStr(<<"S", "e", "c", "u", "r", "i", "t", "y">>)}

SpecificationValues ==
    {Absent, JNull, JInt(0), JInt(5), JList(1)} \cup {JStr(w) : w \in WordStrings(MaxWords)}

LanguageValues ==
    {Absent, JNull, JInt(5), JStr(<<>>), JStr(<<"p", "y", "t", "h", "o", "n">>), JStr(<<"P", "y", "T", "h", "O", "n">>),
     JStr(<<"j", "a", "v", "a">>), JStr(<<"j", "A", "V", "A">>)}

FrameworkValues == {Absent, JStr(<<"f", "l", "a", "s", "k">>)}

ToolValues ==
    {Absent, JNull, JInt(5), JStr(<<>>), JStr(<<"o", "t", "h", "e", "r">>), JStr(<<"F", "i", "l", "e", "_", "A", "n", "a", "l", "y", "z", "e", "r">>),
     JStr(<<"c", "o", "d", "e", "_", "g", "e", "n", "e", "r", "a", "t", "o", "r", " ">>)}

FileDocs ==
    {ObjectDoc(Object(JStr(<<"f", "i", "l", "e", "_", "a", "n", "a", "l", "y", "z", "e", "r">>), p, a, Absent, Absent, Absent)) :
        p \in PathValues, a \in AnalysisValues}

CodeDocs ==
    {ObjectDoc(Object(JStr(<<"c", "o", "d", "e", "_", "g", "e", "n", "e", "r", "a", "t", "o", "r">>), Absent, Absent, s, l, f)) :
        s \in SpecificationValues, l \in LanguageValues, f \in FrameworkValues}

OtherDocs ==
    {ObjectDoc(Object(t, p, Absent, s, Absent, Absent)) :
        t \in ToolValues, p \in {Absent, JStr(<<"p">>)}, s \in {Absent, JStr(<<"w", "e", "b">>)}}

ScalarDocs ==
    {Scalar(v) : v \in {JNull, JInt(5), JBool(TRUE), JStr(<<"f", "i", "l", "e", "_", "a", "n", "a", "l", "y", "z", "e", "r">>), JList(0), JList(1)}}

MalformedDocs ==
    {Malformed(m) : m \in {<<"E", "x", "p", "e", "c", "t", "i", "n", "g", " ", "v", "a", "l", "u", "e", ":", " ", "l", "i", "n", "e", " ", "1", " ", "c", "o", "l", "u", "m", "n", " ", "1", " ", "(", "c", "h", "a", "r", " ", "0", ")">>,
                           <<"E", "x", "t", "r", "a", " ", "d", "a", "t", "a", ":", " ", "l", "i", "n", "e", " ", "1", " ", "c", "o", "l", "u", "m", "n", " ", "3", " ", "(", "c", "h", "a", "r", " ", "2", ")">>}}

Docs == FileDocs \cup CodeDocs \cup OtherDocs \cup ScalarDocs \cup MalformedDocs

----------------------------------------------------------------------------
(* main *)

Init ==
    /\ stdin_doc \in Docs
    /\ pc = "start"
    /\ input_data = NoDoc
    /\ result = NoRecord
    /\ exc = NoExc
    /\ stdout_buf = <<>>
    /\ stdout_open = TRUE
    /\ emitted = <<>>
    /\ exit_code = -1
    /\ events = <<>>
    /\ fs_trace = <<>>
    /\ fs_state = Untouched

\* faulty variant of ReadInput: a line is written to standard output first
ReadInputAfterBanner ==
    /\ pc = "start"
    /\ events' = events \o <<"write", "read">>
    /\ stdout_buf' = Append(stdout_buf, Error(<<"s", "t", "a", "r", "t", "i", "n", "g">>))
    /\ IF stdin_doc.kind = "malformed"
       THEN /\ exc' = Raise(stdin_doc.val.s)
            /\ pc' = "except"
            /\ UNCHANGED input_data
       ELSE /\ input_data' = stdin_doc
            /\ pc' = "process_input"
            /\ UNCHANGED exc
    /\ UNCHANGED <<stdin_doc, result, stdout_open, emitted, exit_code,
                   fs_trace, fs_state>>
\* json.load(sys.stdin): reads the whole stream, then parses it
ReadInput ==
    /\ pc = "start"
    /\ events' = Append(events, "read")
    /\ IF stdin_doc.kind = "malformed"
       THEN /\ exc' = Raise(stdin_doc.val.s)
            /\ pc' = "except"
            /\ UNCHANGED input_data
       ELSE /\ input_data' = stdin_doc
            /\ pc' = "process_input"
            /\ UNCHANGED exc
    /\ UNCHANGED <<stdin_doc, result, stdout_buf, stdout_open, emitted, exit_code,
                   fs_trace, fs_state>>

UnknownTool(tool_name) == Error(<<"U", "n", "k", "n", "o", "w", "n", " ", "t", "o", "o", "l", ":", " ">> \o PyStr(tool_name))

\* faulty variant of Dispatch: tool names compared without case
DispatchCaseInsensitive(data) ==
    LET tool_name == Get(data, "tool", JStr(<<>>))
    IN  IF tool_name.t = "str" /\ lower(tool_name.s) = <<"f", "i", "l", "e", "_", "a", "n", "a", "l", "y", "z", "e", "r">> THEN "file_analyzer"
        ELSE IF tool_name.t = "str" /\ lower(tool_name.s) = <<"c", "o", "d", "e", "_", "g", "e", "n", "e", "r", "a", "t", "o", "r">> THEN "code_generator"
        ELSE "unknown"
\* the branch process_input takes for an object
Dispatch(data) ==
    LET tool_name == Get(data, "tool", JStr(<<>>))
    IN  IF tool_name = JStr(<<"f", "i", "l", "e", "_", "a", "n", "a", "l", "y", "z", "e", "r">>) THEN "file_analyzer"
        ELSE IF tool_name = JStr(<<"c", "o", "d", "e", "_", "g", "e", "n", "e", "r", "a", "t", "o", "r">>) THEN "code_generator"
        ELSE "unknown"

\* process_input up to the call of a handler; data.get raises AttributeError
\* on anything that is no dict
ProcessInput ==
    /\ pc = "process_input"
    /\ events' = Append(events, "dispatch")
    /\ IF input_data.kind # "object"
       THEN /\ exc' = Raise(AttributeError(input_data.val, <<"g", "e", "t">>))
            /\ pc' = "except"
            /\ UNCHANGED result
       ELSE IF Dispatch(input_data.obj) = "unknown"
       THEN /\ result' = UnknownTool(Get(input_data.obj, "tool", JStr(<<>>)))
            /\ pc' = "dump"
            /\ UNCHANGED exc
       ELSE /\ pc' = Dispatch(input_data.obj)
            /\ UNCHANGED <<result, exc>>
    /\ UNCHANGED <<stdin_doc, input_data, stdout_buf, stdout_open, emitted,
                   exit_code, fs_trace, fs_state>>

ProcessFileAnalyzer ==
    /\ pc = "file_analyzer"
    /\ \E st \in FileStatesFor(input_data.obj) :
          LET r == FileAnalyzer(input_data.obj, st)
          IN  /\ fs_state' = st
              /\ fs_trace' = r.trace
              /\ result' = r.ret
              /\ stdout_open' = (stdout_open /\ r.closed # StdoutFd)
    /\ events' = Append(events, "file_analyzer")
    /\ pc' = "dump"
    /\ UNCHANGED <<stdin_doc, input_data, exc, stdout_buf, emitted, exit_code>>

ProcessCodeGenerator ==
    /\ pc = "code_generator"
    /\ LET r == CodeGenerator(input_data.obj)
       IN  /\ result' = r.ret
           /\ exc' = r.exc
           /\ pc' = IF r.exc.raised THEN "except" ELSE "dump"
    /\ events' = Append(events, "code_generator")
    /\ UNCHANGED <<stdin_doc, input_data, stdout_buf, stdout_open, emitted,
                   exit_code, fs_trace, fs_state>>

\* json.dump(result, sys.stdout): the text goes to the stream's buffer
DumpResult ==
    /\ pc = "dump"
    /\ stdout_buf' = Append(stdout_buf, result)
    /\ events' = Append(events, "write")
    /\ pc' = "exit"
    /\ UNCHANGED <<stdin_doc, input_data, result, exc, stdout_open, emitted,
                   exit_code, fs_trace, fs_state>>

\* faulty variant of ErrorResult: the exception's class in place of str(e)
ErrorResultTypeName(msg) == Error(<<"E", "x", "c", "e", "p", "t", "i", "o", "n">>)
\* error_result of main's except clause
ErrorResult(msg) == Error(msg)

\* except Exception as e: json.dump(error_result, sys.stdout)
HandleException ==
    /\ pc = "except"
    /\ result' = ErrorResult(exc.msg)
    /\ stdout_buf' = Append(stdout_buf, ErrorResult(exc.msg))
    /\ events' = Append(events, "write")
    /\ pc' = "exit"
    /\ UNCHANGED <<stdin_doc, input_data, exc, stdout_open, emitted, exit_code,
                   fs_trace, fs_state>>

\* exit status of an interpreter that could not flush standard output
FlushFailedStatus == 120

\* main returns and the interpreter shuts down: the buffer of sys.stdout is
\* flushed to descriptor 1, which fails when the descriptor has been closed
Exit ==
    /\ pc = "exit"
    /\ IF stdout_open
       THEN emitted' = stdout_buf /\ exit_code' = 0
       ELSE emitted' = <<>> /\ exit_code' = FlushFailedStatus
    /\ pc' = "done"
    /\ UNCHANGED <<stdin_doc, input_data, result, exc, stdout_buf, stdout_open,
                   events, fs_trace, fs_state>>

Next ==
    \/ ReadInput
    \/ ProcessInput
    \/ ProcessFileAnalyzer
    \/ ProcessCodeGenerator
    \/ DumpResult
    \/ HandleException
    \/ Exit

Spec == Init /\ [][Next]_vars

----------------------------------------------------------------------------
(* Properties *)

Done == pc = "done"
Req == stdin_doc.obj
IsRequestFor(tool) == stdin_doc.kind = "object" /\ Req.tool = JStr(tool)
Ran(handler) == \E i \in DOMAIN events : events[i] = handler
\* the values Python treats as empty, written out
EmptyValues == {Absent, JNull, JStr(<<>>), JInt(0), JBool(FALSE), JList(0)}
IsPrefix(p, s) == Len(p) <= Len(s) /\ SubSeq(s, 1, Len(p)) = p
CountLF(s) == Cardinality({i \in DOMAIN s : s[i] = 10})

\* C1: on every path the process emits exactly one JSON value to standard
\* output: never none and never two.
C1_ExactlyOneValue ==
    /\ Len(stdout_buf) <= 1
    /\ Done => Len(emitted) = 1

\* the failures of C2 and the message each one carries
C2_Failure ==
    (stdin_doc.kind \in {"malformed", "scalar"}
        \/ (/\ IsRequestFor(<<"c", "o", "d", "e", "_", "g", "e", "n", "e", "r", "a", "t", "o", "r">>)
            /\ Req.specification \notin EmptyValues
            /\ Req.language \notin {Absent} \cup {JStr(l) : l \in {<<>>, <<"p", "y", "t", "h", "o", "n">>, <<"P", "y", "T", "h", "O", "n">>, <<"j", "a", "v", "a">>, <<"j", "A", "V", "A">>}}))
C2_Message ==
    IF stdin_doc.kind = "malformed" THEN stdin_doc.val.s
    ELSE IF stdin_doc.kind = "scalar"
    THEN <<"'">> \o
         (CASE stdin_doc.val.t = "str" -> <<"s", "t", "r">> [] stdin_doc.val.t = "int" -> <<"i", "n", "t">>
            [] stdin_doc.val.t = "bool" -> <<"b", "o", "o", "l">> [] stdin_doc.val.t = "list" -> <<"l", "i", "s", "t">>
            [] OTHER -> <<"N", "o", "n", "e", "T", "y", "p", "e">>)
         \o <<"'", " ", "o", "b", "j", "e", "c", "t", " ", "h", "a", "s", " ", "n", "o", " ", "a", "t", "t", "r", "i", "b", "u", "t", "e", " ", "'", "g", "e", "t", "'">>
    ELSE <<"'">> \o (IF Req.language.t = "int" THEN <<"i", "n", "t">> ELSE <<"N", "o", "n", "e", "T", "y", "p", "e">>)
         \o <<"'", " ", "o", "b", "j", "e", "c", "t", " ", "h", "a", "s", " ", "n", "o", " ", "a", "t", "t", "r", "i", "b", "u", "t", "e", " ", "'", "l", "o", "w", "e", "r", "'">>

\* C2: a failure that no handler catches (text that is not JSON, a JSON value
\* that is no object, an exception raised inside a handler such as a
\* non-string language) becomes the record {error: message}; that record is
\* the only thing written and emitted, and the exit status is 0.
C2_FailureConverted ==
    /\ (Done /\ C2_Failure) =>
          /\ exc.raised
          /\ emitted = <<[error |-> C2_Message]>>
    /\ (Done /\ exc.raised) =>
          /\ stdout_buf = <<[error |-> exc.msg]>>
          /\ emitted = stdout_buf
          /\ exit_code = 0
C2_Witness ==
    /\ Done /\ IsRequestFor(<<"c", "o", "d", "e", "_", "g", "e", "n", "e", "r", "a", "t", "o", "r">>) /\ Req.language = JInt(5)
    /\ emitted = <<[error |-> <<"'", "i", "n", "t", "'", " ", "o", "b", "j", "e", "c", "t", " ", "h", "a", "s", " ", "n", "o", " ", "a", "t", "t", "r", "i", "b", "u", "t", "e", " ", "'", "l", "o", "w", "e", "r", "'">>]>>

\* one of the three shapes, from the handler that builds it
C3_ShapeOf(r) ==
    /\ DOMAIN r \in {{"result"}, {"code", "explanation"}, {"error"}}
    /\ DOMAIN r = {"result"} => IsRequestFor(<<"f", "i", "l", "e", "_", "a", "n", "a", "l", "y", "z", "e", "r">>) /\ Ran("file_analyzer")
    /\ DOMAIN r = {"code", "explanation"} =>
          IsRequestFor(<<"c", "o", "d", "e", "_", "g", "e", "n", "e", "r", "a", "t", "o", "r">>) /\ Ran("code_generator")
\* C3: every response record written or emitted has exactly one of the shapes
\* {result}, {code, explanation}, {error}; {result} comes only from
\* file_analyzer and {code, explanation} only from code_generator.
C3_Shapes ==
    /\ \A i \in DOMAIN stdout_buf : C3_ShapeOf(stdout_buf[i])
    /\ \A i \in DOMAIN emitted : C3_ShapeOf(emitted[i])
    /\ result # NoRecord => C3_ShapeOf(result)
C3_Witness ==
    /\ Done /\ Len(emitted) = 1 /\ DOMAIN emitted[1] = {"error"}
    /\ IsRequestFor(<<"f", "i", "l", "e", "_", "a", "n", "a", "l", "y", "z", "e", "r">>) /\ fs_trace = <<"exists">>

\* C4: for an object, the file-summary handler runs iff tool is exactly
\* "file_analyzer", the code-template handler iff tool is exactly
\* "code_generator"; for any other or missing tool no handler runs and the
\* output is {error: "Unknown tool: <tool>"}.
C4_Dispatch ==
    (Done /\ stdin_doc.kind = "object") =>
        /\ Ran("file_analyzer") <=> Req.tool = JStr(<<"f", "i", "l", "e", "_", "a", "n", "a", "l", "y", "z", "e", "r">>)
        /\ Ran("code_generator") <=> Req.tool = JStr(<<"c", "o", "d", "e", "_", "g", "e", "n", "e", "r", "a", "t", "o", "r">>)
        /\ Req.tool \notin {JStr(<<"f", "i", "l", "e", "_", "a", "n", "a", "l", "y", "z", "e", "r">>), JStr(<<"c", "o", "d", "e", "_", "g", "e", "n", "e", "r", "a", "t", "o", "r">>)} =>
              /\ ~Ran("file_analyzer") /\ ~Ran("code_generator")
              /\ emitted = <<[error |-> <<"U", "n", "k", "n", "o", "w", "n", " ", "t", "o", "o", "l", ":", " ">> \o
                                (IF Req.tool = Absent THEN <<>> ELSE PyStr(Req.tool))]>>
C4_Witness ==
    /\ Done /\ stdin_doc.kind = "object" /\ Req.tool = JStr(<<"F", "i", "l", "e", "_", "A", "n", "a", "l", "y", "z", "e", "r">>)
    /\ emitted = <<[error |-> <<"U", "n", "k", "n", "o", "w", "n", " ", "t", "o", "o", "l", ":", " ", "F", "i", "l", "e", "_", "A", "n", "a", "l", "y", "z", "e", "r">>]>>

\* C5: a missing or empty required field (absent, "", or any other value
\* Python treats as empty) is rejected before anything else:
\* file_analyzer without file_path answers "File path is required" with no
\* file-system call, whatever analysis_type is; code_generator without
\* specification answers "Specification is required", whatever language is.
C5_RequiredFirst ==
    /\ (Done /\ IsRequestFor(<<"f", "i", "l", "e", "_", "a", "n", "a", "l", "y", "z", "e", "r">>) /\ Req.file_path \in EmptyValues) =>
          /\ emitted = <<[error |-> <<"F", "i", "l", "e", " ", "p", "a", "t", "h", " ", "i", "s", " ", "r", "e", "q", "u", "i", "r", "e", "d">>]>>
          /\ fs_trace = <<>>
          /\ fs_state = Untouched
    /\ (Done /\ IsRequestFor(<<"c", "o", "d", "e", "_", "g", "e", "n", "e", "r", "a", "t", "o", "r">>) /\ Req.specification \in EmptyValues) =>
          /\ emitted = <<[error |-> <<"S", "p", "e", "c", "i", "f", "i", "c", "a", "t", "i", "o", "n", " ", "i", "s", " ", "r", "e", "q", "u", "i", "r", "e", "d">>]>>
          /\ ~exc.raised
C5_Witness ==
    /\ Done /\ IsRequestFor(<<"c", "o", "d", "e", "_", "g", "e", "n", "e", "r", "a", "t", "o", "r">>)
    /\ Req.specification = JStr(<<>>) /\ Req.language = JInt(5)
    /\ emitted = <<[error |-> <<"S", "p", "e", "c", "i", "f", "i", "c", "a", "t", "i", "o", "n", " ", "i", "s", " ", "r", "e", "q", "u", "i", "r", "e", "d">>]>>

\* the existence check, open, the read or the decoding fails
C6_Failed ==
    \/ Req.file_path.t = "list"
    \/ fs_state.fail \in {"open", "read"}
    \/ (fs_state.exists /\ fs_state.fail = "none" /\ ~utf8_decode(fs_state.bytes).ok)
\* C6: for file_analyzer with a non-empty path p: when p does not exist the
\* output is "File not found: p" and the file is never opened; the existence
\* check comes first; a failure of the existence check, of open, of the read
\* or of the decoding gives "Failed to analyze file: <message>" from the
\* handler, never a {result} record, and never reaches main's except clause.
C6_FileErrors ==
    (Done /\ IsRequestFor(<<"f", "i", "l", "e", "_", "a", "n", "a", "l", "y", "z", "e", "r">>) /\ Req.file_path \notin EmptyValues) =>
        /\ ~exc.raised
        /\ fs_trace # <<>> /\ fs_trace[1] = "exists"
        /\ (fs_state = Missing) =>
              /\ emitted = <<[error |-> <<"F", "i", "l", "e", " ", "n", "o", "t", " ", "f", "o", "u", "n", "d", ":", " ">> \o PyStr(Req.file_path)]>>
              /\ fs_trace = <<"exists">>
        /\ C6_Failed =>
              /\ DOMAIN result = {"error"}
              /\ IsPrefix(<<"F", "a", "i", "l", "e", "d", " ", "t", "o", " ", "a", "n", "a", "l", "y", "z", "e", " ", "f", "i", "l", "e", ":", " ">>, result.error)
              /\ stdout_buf = <<result>>
        /\ DOMAIN result = {"result"} =>
              /\ fs_state.exists /\ fs_state.fail = "none"
              /\ utf8_decode(fs_state.bytes).ok
C6_Witness ==
    /\ Done /\ IsRequestFor(<<"f", "i", "l", "e", "_", "a", "n", "a", "l", "y", "z", "e", "r">>) /\ Req.file_path = JStr(<<"p">>)
    /\ fs_state.bytes = <<97, 195>>
    /\ emitted = <<[error |-> <<"F", "a", "i", "l", "e", "d", " ", "t", "o", " ", "a", "n", "a", "l", "y", "z", "e", " ", "f", "i", "l", "e", ":", " ", "'", "u", "t", "f", "-", "8", "'", " ", "c", "o", "d", "e", "c", " ", "c", "a", "n", "'", "t", " ", "d", "e", "c", "o", "d", "e", " ", "b", "y", "t", "e", " ", "0", "x", "c", "3", " ", "i", "n", " ", "p", "o", "s", "i", "t", "i", "o", "n", " ", "1", ":", " ", "u", "n", "e", "x", "p", "e", "c", "t", "e", "d", " ", "e", "n", "d", " ", "o", "f", " ", "d", "a", "t", "a">>]>>

\* the case of C7: a summary request whose file is read without failure
C7_Case ==
    /\ Done /\ IsRequestFor(<<"f", "i", "l", "e", "_", "a", "n", "a", "l", "y", "z", "e", "r">>)
    /\ Req.file_path \notin EmptyValues /\ Req.file_path.t # "list"
    /\ Req.analysis_type \notin {JStr(<<"s", "e", "c", "u", "r", "i", "t", "y">>), JStr(<<"p", "e", "r", "f", "o", "r", "m", "a", "n", "c", "e">>)}
    /\ fs_state.exists /\ fs_state.fail = "none" /\ utf8_decode(fs_state.bytes).ok
C7_States(k, n) ==
    result = [result |-> <<"S", "u", "m", "m", "a", "r", "y", " ", "o", "f", " ">> \o PyStr(Req.file_path) \o <<":", " ", "F", "i", "l", "e", " ", "c", "o", "n", "t", "a", "i", "n", "s", " ">> \o
                         int_str(k) \o <<" ", "l", "i", "n", "e", "s", " ", "a", "n", "d", " ">> \o int_str(n) \o <<" ", "c", "h", "a", "r", "a", "c", "t", "e", "r", "s", ".">>]

\* C7 as stated: the result states k lines and n characters, k the number of
\* pieces of the file's content split on the newline character and n its
\* number of characters.
C7_FileCounts ==
    (C7_Case /\ Req.file_path.t = "str") =>
        /\ C7_States(CountLF(utf8_decode(fs_state.bytes).chars) + 1,
                     Len(utf8_decode(fs_state.bytes).chars))
        /\ emitted = <<result>>

\* C7 amended: the result record states k lines and n characters, both
\* counted on the text as the text-mode read returns it, that is after every
\* CR LF pair and every lone CR of the file has become one newline: k is one
\* more than the number of newlines of that text (1 for the empty file, a
\* text ending in a newline counts an empty last line), n its length.
C7_TextCounts ==
    C7_Case => C7_States(CountLF(read_text(fs_state.bytes)) + 1,
                         Len(read_text(fs_state.bytes)))
C7_Witness ==
    /\ C7_Case /\ Req.analysis_type = Absent /\ Req.file_path = JStr(<<"/", "t", "m", "p", "/", "f", ".", "t", "x", "t">>)
    /\ fs_state.bytes = <<97, 13, 10>>
    /\ emitted = <<[result |-> <<"S", "u", "m", "m", "a", "r", "y", " ", "o", "f", " ", "/", "t", "m", "p", "/", "f", ".", "t", "x", "t", ":", " ", "F", "i", "l", "e", " ", "c", "o", "n", "t", "a", "i", "n", "s", " ", "2", " ", "l", "i", "n", "e", "s", " ", "a", "n", "d", " ", "2", " ", "c", "h", "a", "r", "a", "c", "t", "e", "r", "s", ".">>]>>

\* the case of C8: a Python request with a specification string
C8_Case ==
    /\ Done /\ IsRequestFor(<<"c", "o", "d", "e", "_", "g", "e", "n", "e", "r", "a", "t", "o", "r">>)
    /\ Req.specification.t = "str" /\ Req.specification.s # <<>>
    /\ Req.language \in {Absent, JStr(<<"p", "y", "t", "h", "o", "n">>), JStr(<<"P", "y", "T", "h", "O", "n">>)}
C8_Has(word) == Contains(word, lower(Req.specification.s))
\* C8: for code_generator with a non-empty specification string and language
\* "python" in any case (or omitted): the web-API template when the
\* lower-cased specification contains "web" or "api", even if it also
\* contains "data" or "analysis"; else the data-analysis template when it
\* contains "data" or "analysis"; else the generic template.
C8_TemplateOrder ==
    C8_Case =>
        /\ (C8_Has(<<"w", "e", "b">>) \/ C8_Has(<<"a", "p", "i">>)) =>
              emitted = <<[code |-> WebCode, explanation |-> WebExplanation]>>
        /\ (~C8_Has(<<"w", "e", "b">>) /\ ~C8_Has(<<"a", "p", "i">>) /\ (C8_Has(<<"d", "a", "t", "a">>) \/ C8_Has(<<"a", "n", "a", "l", "y", "s", "i", "s">>))) =>
              emitted = <<[code |-> DataCode, explanation |-> DataExplanation]>>
        /\ (~C8_Has(<<"w", "e", "b">>) /\ ~C8_Has(<<"a", "p", "i">>) /\ ~C8_Has(<<"d", "a", "t", "a">>) /\ ~C8_Has(<<"a", "n", "a", "l", "y", "s", "i", "s">>)) =>
              emitted = <<[code |-> GenericCode, explanation |-> GenericExplanation]>>
C8_Witness ==
    /\ C8_Case /\ Req.specification = JStr(<<"D", "a", "t", "a", "A", "P", "I">>) /\ Req.language = JStr(<<"P", "y", "T", "h", "O", "n">>)
    /\ emitted = <<[code |-> WebCode, explanation |-> WebExplanation]>>

\* C9 as stated: for language "java" and any specification string s the
\* output is a {code, explanation} record whose code contains "Java" and s.
C9_AnySpecification ==
    (Done /\ IsRequestFor(<<"c", "o", "d", "e", "_", "g", "e", "n", "e", "r", "a", "t", "o", "r">>) /\ Req.language = JStr(<<"j", "a", "v", "a">>)
          /\ Req.specification.t = "str") =>
        /\ Len(emitted) = 1
        /\ DOMAIN emitted[1] = {"code", "explanation"}
        /\ Contains(<<"J", "a", "v", "a">>, emitted[1].code)
        /\ Contains(Req.specification.s, emitted[1].code)

\* C9 amended: for language "java" and any non-empty specification s the
\* output is a {code, explanation} record whose code contains "Java" and the
\* text of s unchanged; for any language string that is not "python" in any
\* case and any non-empty specification, the code is the placeholder with
\* the capitalized language name and the specification text unchanged.
C9_NonEmptySpecification ==
    (Done /\ IsRequestFor(<<"c", "o", "d", "e", "_", "g", "e", "n", "e", "r", "a", "t", "o", "r">>) /\ Req.language.t = "str"
          /\ Req.language \notin {JStr(<<"p", "y", "t", "h", "o", "n">>), JStr(<<"P", "y", "T", "h", "O", "n">>)}
          /\ Req.specification \notin EmptyValues) =>
        /\ Len(emitted) = 1
        /\ DOMAIN emitted[1] = {"code", "explanation"}
        /\ Req.language \in {JStr(<<"j", "a", "v", "a">>), JStr(<<"j", "A", "V", "A">>)} =>
              IsPrefix(<<"#", " ", "J", "a", "v", "a", " ", "c", "o", "d", "e", " ", "p", "l", "a", "c", "e", "h", "o", "l", "d", "e", "r">>, emitted[1].code)
        /\ Req.language = JStr(<<>>) => IsPrefix(<<"#", " ", " ", "c", "o", "d", "e", " ", "p", "l", "a", "c", "e", "h", "o", "l", "d", "e", "r">>, emitted[1].code)
        /\ Req.specification.t = "str" =>
              Contains(Req.specification.s, emitted[1].code)
        /\ emitted[1].code = <<"#", " ">> \o capitalize(Req.language.s) \o
                             <<" ", "c", "o", "d", "e", " ", "p", "l", "a", "c", "e", "h", "o", "l", "d", "e", "r", "\\", "n", "#", " ", "S", "p", "e", "c", "i", "f", "i", "c", "a", "t", "i", "o", "n", ":", " ">> \o
                             PyStr(Req.specification)
C9_Witness ==
    /\ Done /\ IsRequestFor(<<"c", "o", "d", "e", "_", "g", "e", "n", "e", "r", "a", "t", "o", "r">>) /\ Req.language = JStr(<<"j", "A", "V", "A">>)
    /\ Req.specification = JStr(<<"D", "a", "t", "a", "A", "P", "I">>)
    /\ emitted = <<[code |-> <<"#", " ", "J", "a", "v", "a", " ", "c", "o", "d", "e", " ", "p", "l", "a", "c", "e", "h", "o", "l", "d", "e", "r", "\\", "n", "#", " ", "S", "p", "e", "c", "i", "f", "i", "c", "a", "t", "i", "o", "n", ":", " ", "D", "a", "t", "a", "A", "P", "I">>,
                    explanation |-> <<"G", "e", "n", "e", "r", "a", "t", "e", "d", " ", "p", "l", "a", "c", "e", "h", "o", "l", "d", "e", "r", " ", "c", "o", "d", "e", " ", "f", "o", "r", " ", "j", "A", "V", "A">>]>>

\* the complete event traces
C10_Runs ==
    {<<"read", "write">>, <<"read", "dispatch", "write">>}
    \cup {<<"read", "dispatch", h, "write">> : h \in {"file_analyzer", "code_generator"}}
\* C10: the events of an execution are, in this order, the read of standard
\* input, the dispatch, at most one handler, and the one write to standard
\* output: nothing is written before the read and nothing is read, dispatched
\* or handled after the write.
C10_Order ==
    /\ \E run \in C10_Runs : IsPrefix(events, run)
    /\ Done => events \in C10_Runs
    /\ Len(stdout_buf) = Cardinality({i \in DOMAIN events : events[i] = "write"})
    /\ emitted # <<>> => events[Len(events)] = "write"
C10_Witness ==
    /\ Done /\ events = <<"read", "dispatch", "file_analyzer", "write">>
    /\ fs_trace = <<"exists", "open", "read", "close">>

====
